---- MODULE Spec2Model ----
(***************************************************************************)
(* Model of gif_converter.py: convert_video_to_gif and main.               *)
(*                                                                         *)
(* A run is one call of convert_video_to_gif; its position in the function *)
(* is pc[r].  The filesystem is a map from paths to the writer of the file *)
(* at that path ("absent" when there is none, "stale" for a file that was  *)
(* there before any run started).  A path is a record of its directory     *)
(* (the depth of a chain of nested directories below the input's           *)
(* directory, which is depth 0), its stem and its extension.               *)
(***************************************************************************)
EXTENDS Naturals, Integers, Sequences, FiniteSets, TLC

VARIABLES req, pc, output_path, exc, caught, raisedAt, log, exitCode,
          fs, dirs, fs0, dirs0

vars == <<req, pc, output_path, exc, caught, raisedAt, log, exitCode,
          fs, dirs, fs0, dirs0>>

\* Deepest chain of nested directories an output path may name.
MaxDepth == 2

Runs == {"A", "B"}

Dirs == 0..MaxDepth

Stems == {"clip", "result", "palette_temp"}

Exts == {"mp4", "gif", "png"}

Paths == [dir : Dirs, stem : Stems, ext : Exts]

\* output_path=None, and the value of output_path before it is resolved.
None == [dir |-> -1, stem |-> "", ext |-> ""]

Videos == {[dir |-> 0, stem |-> "clip", ext |-> "mp4"]}

ExplicitOutputs ==
    {p \in Paths : \/ p.ext = "gif" /\ p.stem # "palette_temp"
                   \/ p.ext = "png" /\ p.stem = "palette_temp"}

Choices == {"low", "medium", "high"}

Qualities == Choices \cup {"ultra"}

\* ---------------------------------------------------------------- helpers

\* The classes an exception is an instance of.
Mro(e) ==
    CASE e = "CalledProcessError" -> {"CalledProcessError", "SubprocessError", "Exception"}
      [] e = "FileNotFoundError"  -> {"FileNotFoundError", "OSError", "Exception"}
      [] e = "PermissionError"    -> {"PermissionError", "OSError", "Exception"}
      [] e = "RuntimeError"       -> {"RuntimeError", "Exception"}
      [] OTHER                    -> {}

IsInstance(e, cls) == cls \in Mro(e)

\* What subprocess.run(cmd, check=True) can do: return, raise CalledProcessError
\* (non-zero exit status) or raise FileNotFoundError (no such binary).
EngineOutcomes == {"ok", "CalledProcessError", "FileNotFoundError"}

quality_settings ==
    [low    |-> [colors |-> "128", dither |-> "bayer:bayer_scale=3"],
     medium |-> [colors |-> "256", dither |-> "bayer:bayer_scale=5"],
     high   |-> [colors |-> "256", dither |-> "none"]]

QualitySettingsLowDefault(quality) ==
    IF quality \in DOMAIN quality_settings
    THEN quality_settings[quality]
    ELSE quality_settings["low"]

\* quality_settings.get(quality, quality_settings['medium'])
QualitySettings(quality) ==
    IF quality \in DOMAIN quality_settings
    THEN quality_settings[quality]
    ELSE quality_settings["medium"]

\* video_path.parent / f"{video_path.stem}.gif"
DerivedOutput(video) == [dir |-> video.dir, stem |-> video.stem, ext |-> "gif"]

\* output_path.parent / "palette_temp.png"
PalettePath(out) == [dir |-> out.dir, stem |-> "palette_temp", ext |-> "png"]

palette_path(r) == PalettePath(output_path[r])

\* output_path.parent.mkdir(parents=True, exist_ok=True)
Mkdir(d) == dirs \cup (0..d)

Exists(p) == fs[p] # "absent"

Invocation(kind, opt, rc, read) ==
    [kind |-> kind, opt |-> opt, rc |-> rc, read |-> read]

\* Positions inside the try block of convert_video_to_gif.
TryBlock == {"GeneratingPalette", "Encoding", "CleaningUp", "Report"}

\* ------------------------------------------------------------------ Init

TypeOK ==
    /\ pc \in [Runs -> {"Idle", "Preflight", "CheckInput", "ResolveOutput",
                        "GeneratingPalette", "Encoding", "CleaningUp", "Report",
                        "HandlerExists", "HandlerUnlink", "Done", "Failed"}]
    /\ fs \in [Paths -> Runs \cup {"absent", "stale"}]
    /\ dirs \subseteq Dirs

Requests ==
    {q \in [video : Videos, output : ExplicitOutputs \cup {None},
            quality : Qualities, caller : {"main", "direct"}] :
        q.caller = "main" => q.quality \in Choices}

IdleRequest ==
    [video |-> CHOOSE v \in Videos : TRUE, output |-> None,
     quality |-> "medium", caller |-> "direct"]

\* Files that may be on disk before any run starts.
StaleCandidates == Videos \cup {PalettePath([dir |-> d]) : d \in Dirs}

InitWith(active) ==
    /\ \E top \in Dirs : dirs = 0..top
    /\ \E S \in SUBSET {p \in StaleCandidates : p.dir \in dirs} :
          fs = [p \in Paths |-> IF p \in S THEN "stale" ELSE "absent"]
    /\ fs0 = fs
    /\ dirs0 = dirs
    /\ req \in [Runs -> Requests]
    /\ \A r \in Runs \ active : req[r] = IdleRequest
    /\ pc = [r \in Runs |-> "Idle"]
    /\ output_path = [r \in Runs |-> None]
    /\ exc = [r \in Runs |-> "none"]
    /\ caught = [r \in Runs |-> "none"]
    /\ raisedAt = [r \in Runs |-> "none"]
    /\ log = [r \in Runs |-> <<>>]
    /\ exitCode = [r \in Runs |-> IF r \in active THEN "running" ELSE "unused"]

Init == InitWith({"A"})

\* --------------------------------------------------------------- actions

\* An exception e leaves the statement at pc[r].  Inside the try block a
\* CalledProcessError enters the except clause; anything else, and anything
\* raised outside the try block, propagates to the caller.
RaiseSwallowed(r, e) ==
    /\ exc' = [exc EXCEPT ![r] = "none"]
    /\ raisedAt' = raisedAt
    /\ caught' = caught
    /\ pc' = [pc EXCEPT ![r] =
                CASE pc[r] = "GeneratingPalette" -> "Encoding"
                  [] pc[r] = "Encoding"          -> "CleaningUp"
                  [] OTHER                       -> "Failed"]

Raise(r, e) ==
    /\ exc' = [exc EXCEPT ![r] = e]
    /\ raisedAt' = [raisedAt EXCEPT ![r] = pc[r]]
    /\ IF pc[r] \in TryBlock /\ IsInstance(e, "CalledProcessError")
       THEN /\ pc' = [pc EXCEPT ![r] = "HandlerExists"]
            /\ caught' = [caught EXCEPT ![r] = e]
       ELSE /\ pc' = [pc EXCEPT ![r] = "Failed"]
            /\ caught' = caught

Goto(r, next) ==
    /\ pc' = [pc EXCEPT ![r] = next]
    /\ UNCHANGED <<exc, caught, raisedAt>>

\* convert_video_to_gif is called (by main, or directly).
Start(r) ==
    /\ pc[r] = "Idle"
    /\ exitCode[r] # "unused"
    /\ Goto(r, "Preflight")
    /\ UNCHANGED <<req, output_path, log, exitCode, fs, dirs, fs0, dirs0>>

PreflightAfterMkdir(r) ==
    /\ pc[r] = "Preflight"
    /\ dirs' = IF req[r].output = None THEN dirs ELSE Mkdir(req[r].output.dir)
    /\ \E rc \in EngineOutcomes :
          /\ log' = [log EXCEPT ![r] = Append(@, Invocation("version", "", rc, "none"))]
          /\ IF rc = "ok"
             THEN Goto(r, "CheckInput")
             ELSE Raise(r, "RuntimeError")
    /\ UNCHANGED <<req, output_path, exitCode, fs, fs0, dirs0>>

\* subprocess.run(['ffmpeg', '-version'], check=True); both exceptions the
\* except clause names become RuntimeError.
Preflight(r) ==
    /\ pc[r] = "Preflight"
    /\ \E rc \in EngineOutcomes :
          /\ log' = [log EXCEPT ![r] = Append(@, Invocation("version", "", rc, "none"))]
          /\ IF rc = "ok"
             THEN Goto(r, "CheckInput")
             ELSE IF IsInstance(rc, "CalledProcessError") \/ IsInstance(rc, "FileNotFoundError")
                  THEN Raise(r, "RuntimeError")
                  ELSE Raise(r, rc)
    /\ UNCHANGED <<req, output_path, exitCode, fs, dirs, fs0, dirs0>>

CheckInputSkipped(r) ==
    /\ pc[r] = "CheckInput"
    /\ Goto(r, "ResolveOutput")
    /\ UNCHANGED <<req, output_path, log, exitCode, fs, dirs, fs0, dirs0>>

\* if not os.path.exists(video_path): raise FileNotFoundError
CheckInput(r) ==
    /\ pc[r] = "CheckInput"
    /\ IF ~Exists(req[r].video)
       THEN Raise(r, "FileNotFoundError")
       ELSE Goto(r, "ResolveOutput")
    /\ UNCHANGED <<req, output_path, log, exitCode, fs, dirs, fs0, dirs0>>

\* Set output path: derived from the video's name, or the explicit one with
\* its parent directories created.
ResolveOutput(r) ==
    /\ pc[r] = "ResolveOutput"
    /\ IF req[r].output = None
       THEN /\ output_path' = [output_path EXCEPT ![r] = DerivedOutput(req[r].video)]
            /\ dirs' = dirs
       ELSE /\ output_path' = [output_path EXCEPT ![r] = req[r].output]
            /\ dirs' = Mkdir(req[r].output.dir)
    /\ Goto(r, "GeneratingPalette")
    /\ UNCHANGED <<req, log, exitCode, fs, fs0, dirs0>>

\* subprocess.run(palette_cmd, check=True).  A failing engine may leave a
\* partial palette file behind.
GeneratePalette(r) ==
    /\ pc[r] = "GeneratingPalette"
    /\ \E rc \in EngineOutcomes :
          /\ log' = [log EXCEPT ![r] = Append(@,
                        Invocation("palette", QualitySettings(req[r].quality).colors, rc, "none"))]
          /\ \/ /\ rc = "ok"
                /\ fs' = [fs EXCEPT ![palette_path(r)] = r]
                /\ Goto(r, "Encoding")
             \/ /\ rc = "CalledProcessError"
                /\ \/ fs' = fs
                   \/ fs' = [fs EXCEPT ![palette_path(r)] = r]
                /\ Raise(r, rc)
             \/ /\ rc = "FileNotFoundError"
                /\ fs' = fs
                /\ Raise(r, rc)
    /\ UNCHANGED <<req, output_path, exitCode, dirs, fs0, dirs0>>

\* subprocess.run(gif_cmd, check=True).  The engine reads the palette file:
\* it cannot succeed when there is none.  A failing engine may leave a
\* partial output file behind.
Encode(r) ==
    /\ pc[r] = "Encoding"
    /\ \E rc \in EngineOutcomes :
          /\ log' = [log EXCEPT ![r] = Append(@,
                        Invocation("gif", QualitySettings(req[r].quality).dither, rc,
                                   fs[palette_path(r)]))]
          /\ \/ /\ rc = "ok"
                /\ Exists(palette_path(r))
                /\ fs' = [fs EXCEPT ![output_path[r]] = r]
                /\ Goto(r, "CleaningUp")
             \/ /\ rc = "CalledProcessError"
                /\ \/ fs' = fs
                   \/ fs' = [fs EXCEPT ![output_path[r]] = r]
                /\ Raise(r, rc)
             \/ /\ rc = "FileNotFoundError"
                /\ fs' = fs
                /\ Raise(r, rc)
    /\ UNCHANGED <<req, output_path, exitCode, dirs, fs0, dirs0>>

\* Path.unlink(): FileNotFoundError when there is no such file; the operating
\* system may refuse the removal (PermissionError).
UnlinkOutcomes(p) == IF Exists(p) THEN {"ok", "PermissionError"} ELSE {"FileNotFoundError"}

CleanupKeepsPalette(r) ==
    /\ pc[r] = "CleaningUp"
    /\ fs' = fs
    /\ Goto(r, "Report")
    /\ UNCHANGED <<req, output_path, log, exitCode, dirs, fs0, dirs0>>

\* palette_path.unlink() on the success path.
Cleanup(r) ==
    /\ pc[r] = "CleaningUp"
    /\ \E u \in UnlinkOutcomes(palette_path(r)) :
          IF u = "ok"
          THEN /\ fs' = [fs EXCEPT ![palette_path(r)] = "absent"]
               /\ Goto(r, "Report")
          ELSE /\ fs' = fs
               /\ Raise(r, u)
    /\ UNCHANGED <<req, output_path, log, exitCode, dirs, fs0, dirs0>>

\* output_path.stat().st_size, and the success messages.
Report(r) ==
    /\ pc[r] = "Report"
    /\ IF Exists(output_path[r])
       THEN Goto(r, "Done")
       ELSE Raise(r, "FileNotFoundError")
    /\ UNCHANGED <<req, output_path, log, exitCode, fs, dirs, fs0, dirs0>>

\* except CalledProcessError: if palette_path.exists(): ... else re-raise.
HandlerExists(r) ==
    /\ pc[r] = "HandlerExists"
    /\ IF Exists(palette_path(r))
       THEN Goto(r, "HandlerUnlink")
       ELSE Goto(r, "Failed")
    /\ UNCHANGED <<req, output_path, log, exitCode, fs, dirs, fs0, dirs0>>

\* palette_path.unlink() in the except clause, then raise.  An exception of
\* the unlink replaces the one being handled.
HandlerUnlink(r) ==
    /\ pc[r] = "HandlerUnlink"
    /\ \E u \in UnlinkOutcomes(palette_path(r)) :
          IF u = "ok"
          THEN /\ fs' = [fs EXCEPT ![palette_path(r)] = "absent"]
               /\ exc' = exc
          ELSE /\ fs' = fs
               /\ exc' = [exc EXCEPT ![r] = u]
    /\ pc' = [pc EXCEPT ![r] = "Failed"]
    /\ UNCHANGED <<req, output_path, caught, raisedAt, log, exitCode, dirs, fs0, dirs0>>

MainExitCatchesRuntimeError(r) ==
    /\ req[r].caller = "main"
    /\ exitCode[r] = "running"
    /\ pc[r] \in {"Done", "Failed"}
    /\ exitCode' = [exitCode EXCEPT ![r] =
                      IF pc[r] = "Done" THEN "0"
                      ELSE IF IsInstance(exc[r], "RuntimeError") THEN "1"
                      ELSE "uncaught"]
    /\ UNCHANGED <<req, pc, output_path, exc, caught, raisedAt, log, fs, dirs, fs0, dirs0>>

\* main: return 0 after the call returns, return 1 from except Exception.
MainExit(r) ==
    /\ req[r].caller = "main"
    /\ exitCode[r] = "running"
    /\ pc[r] \in {"Done", "Failed"}
    /\ exitCode' = [exitCode EXCEPT ![r] =
                      IF pc[r] = "Done" THEN "0"
                      ELSE IF IsInstance(exc[r], "Exception") THEN "1"
                      ELSE "uncaught"]
    /\ UNCHANGED <<req, pc, output_path, exc, caught, raisedAt, log, fs, dirs, fs0, dirs0>>

Next ==
    \E r \in Runs :
        \/ Start(r)
        \/ Preflight(r)
        \/ CheckInput(r)
        \/ ResolveOutput(r)
        \/ GeneratePalette(r)
        \/ Encode(r)
        \/ Cleanup(r)
        \/ Report(r)
        \/ HandlerExists(r)
        \/ HandlerUnlink(r)
        \/ MainExit(r)

\* One run at a time.
Spec == Init /\ [][Next]_vars

\* Two runs at once, started from the command line with the default quality,
\* writing into the same output directory, which holds no palette file yet.
ConcurrentRequests ==
    LET Dir(q) == IF q.output = None THEN DerivedOutput(q.video).dir ELSE q.output.dir
    IN  /\ Dir(req["A"]) = Dir(req["B"])
        /\ \A r \in Runs : req[r].caller = "main" /\ req[r].quality = "medium"
        /\ \A p \in Paths : fs[p] = "stale" => p \in Videos

InitConc == InitWith(Runs) /\ ConcurrentRequests

SpecConc == InitConc /\ [][Next]_vars

\* ---------------------------------------------------------------- claims

Active == {r \in Runs : exitCode[r] # "unused"}

\* The state of the per-run state machine a position of the code belongs to.
PhaseOf(p) ==
    CASE p \in {"Preflight", "CheckInput", "ResolveOutput"} -> "Validating"
      [] p \in {"CleaningUp", "Report"}                     -> "CleaningUp"
      [] OTHER                                              -> p

\* The except clause runs on the way from the failed step to Failed.
Phase(r) ==
    IF pc[r] \in {"HandlerExists", "HandlerUnlink"}
    THEN PhaseOf(raisedAt[r])
    ELSE PhaseOf(pc[r])

Kinds(r) == {log[r][i].kind : i \in DOMAIN log[r]}

\* C1: when a run whose output path is not the palette path reaches Done, the
\* file palette_temp.png of its output directory does not exist.
C1_NoPaletteAfterSuccess ==
    \A r \in Active :
        (pc[r] = "Done" /\ output_path[r] # palette_path(r))
            => ~Exists(palette_path(r))

\* A run has succeeded in a directory that held a palette file before it began.
C1_Witness ==
    \E r \in Active :
        /\ pc[r] = "Done"
        /\ output_path[r] # palette_path(r)
        /\ Exists(output_path[r])
        /\ fs0[palette_path(r)] = "stale"

\* C2: in every Failed state reached from GeneratingPalette or Encoding the
\* palette file is absent from the output directory.
C2_NoPaletteAfterFailure ==
    \A r \in Active :
        (pc[r] = "Failed" /\ raisedAt[r] \in {"GeneratingPalette", "Encoding"})
            => ~Exists(palette_path(r))

SpecEdges ==
    {<<"Idle", "Validating">>, <<"Validating", "GeneratingPalette">>,
     <<"GeneratingPalette", "Encoding">>, <<"Encoding", "CleaningUp">>,
     <<"CleaningUp", "Done">>, <<"Validating", "Failed">>,
     <<"GeneratingPalette", "Failed">>, <<"Encoding", "Failed">>}

\* One step of run r keeps to the state machine with the edges given: the
\* state changes along an edge, the palette and the encoding invocation each
\* happen once at most, the encoding one only after a palette invocation that
\* succeeded, and none happens once the run has failed.
StepFollows(r, edges) ==
    /\ Phase(r)' # Phase(r) => <<Phase(r), Phase(r)'>> \in edges
    /\ (exc[r] # "none" \/ pc[r] = "Failed") => log'[r] = log[r]
    /\ log'[r] # log[r] =>
          LET new == log'[r][Len(log'[r])]
          IN  /\ new.kind = "version" => log[r] = <<>>
              /\ new.kind = "palette" => "palette" \notin Kinds(r)
              /\ new.kind = "gif" =>
                    /\ "gif" \notin Kinds(r)
                    /\ \E i \in DOMAIN log[r] :
                          log[r][i].kind = "palette" /\ log[r][i].rc = "ok"

\* C3 as stated: every run follows Idle -> Validating -> GeneratingPalette ->
\* Encoding -> CleaningUp -> Done, Failed is entered only from Validating,
\* GeneratingPalette or Encoding, no step is retried and nothing is invoked
\* after the first failure.
C3_StateMachineAsStated ==
    [][\A r \in Runs : StepFollows(r, SpecEdges)]_vars

\* C3, amended: the same, with Failed entered from CleaningUp as well (the
\* unlink of the palette or the stat of the output raises).
C3_StateMachine ==
    [][\A r \in Runs : StepFollows(r, SpecEdges \cup {<<"CleaningUp", "Failed">>})]_vars

\* A run has failed in CleaningUp after both engine steps succeeded.
C3_Witness ==
    \E r \in Active :
        /\ pc[r] = "Failed"
        /\ raisedAt[r] \in {"CleaningUp", "Report"}
        /\ Len(log[r]) = 3
        /\ \A i \in 1..3 : log[r][i].rc = "ok"

\* C4: with two runs at once in one output directory, from a run's palette
\* generation to its own cleanup the palette file is there and is the one the
\* run wrote, the palette its encoding step reads is its own, and no run
\* fails in its cleanup because the palette file is gone.
C4_RunsDoNotInterfere ==
    \A r \in Active :
        /\ pc[r] \in {"Encoding", "CleaningUp"} => fs[palette_path(r)] = r
        /\ \A i \in DOMAIN log[r] : log[r][i].kind = "gif" => log[r][i].read = r
        /\ ~(pc[r] = "Failed" /\ raisedAt[r] = "CleaningUp"
                /\ exc[r] = "FileNotFoundError")

\* C5: the palette path and the output path of a run are never the same.
C5_PathsDiffer ==
    \A r \in Active :
        output_path[r] # None => palette_path(r) # output_path[r]

\* C6 as stated: a run whose input does not exist fails with
\* FileNotFoundError, and the engine was not invoked at all before that.
C6_NoInvocationAsStated ==
    \A r \in Active :
        (pc[r] = "Failed" /\ ~Exists(req[r].video))
            => exc[r] = "FileNotFoundError" /\ log[r] = <<>>

\* C6, amended: a run whose input does not exist never invokes palette
\* generation or encoding; the version query is the only invocation, and the
\* run fails with FileNotFoundError when that query succeeded and with
\* RuntimeError (EngineUnavailable) when it did not.
C6_InputNotFound ==
    \A r \in Active :
        ~Exists(req[r].video) =>
            /\ Kinds(r) \subseteq {"version"}
            /\ Len(log[r]) <= 1
            /\ pc[r] \in {"Idle", "Preflight", "CheckInput", "Failed"}
            /\ pc[r] = "Failed" =>
                  exc[r] = IF log[r][1].rc = "ok" THEN "FileNotFoundError"
                           ELSE "RuntimeError"

\* A run has failed with FileNotFoundError on a missing input.
C6_Witness ==
    \E r \in Active :
        /\ ~Exists(req[r].video)
        /\ pc[r] = "Failed"
        /\ exc[r] = "FileNotFoundError"
        /\ Kinds(r) = {"version"}

\* C7: when the version query fails (no binary, or a non-zero exit status)
\* the run has failed with RuntimeError (EngineUnavailable), has invoked
\* nothing else, and the files and the directories are those of the start.
C7_EngineUnavailable ==
    \A r \in Active :
        (log[r] # <<>> /\ log[r][1].rc # "ok") =>
            /\ pc[r] = "Failed"
            /\ exc[r] = "RuntimeError"
            /\ Len(log[r]) = 1
            /\ fs = fs0
            /\ dirs = dirs0

\* The engine was missing for a run whose explicit output names a directory
\* that does not exist.
C7_Witness ==
    \E r \in Active :
        /\ pc[r] = "Failed"
        /\ log[r] # <<>>
        /\ log[r][1].rc = "FileNotFoundError"
        /\ req[r].output # None
        /\ req[r].output.dir \notin dirs0

\* C8: main returns 0 exactly when the run reached Done and 1 when it ended
\* with an error; no error of the conversion escapes main.
C8_ExitCode ==
    \A r \in Active :
        req[r].caller = "main" =>
            /\ exitCode[r] \in {"running", "0", "1"}
            /\ exitCode[r] = "0" => pc[r] = "Done"
            /\ exitCode[r] = "1" => pc[r] = "Failed"

\* main has returned 1 for an error raised by the cleanup.
C8_Witness ==
    \E r \in Active :
        /\ req[r].caller = "main"
        /\ exitCode[r] = "1"
        /\ raisedAt[r] = "CleaningUp"
        /\ exc[r] = "PermissionError"

ProfileTable(quality) ==
    CASE quality = "low"  -> [colors |-> "128", dither |-> "bayer:bayer_scale=3"]
      [] quality = "high" -> [colors |-> "256", dither |-> "none"]
      [] OTHER            -> [colors |-> "256", dither |-> "bayer:bayer_scale=5"]

\* C9: the palette invocation of a run is given the colour count, and its
\* encoding invocation the dithering, of the profile of the run's preset:
\* low 128 and bayer scale 3, medium 256 and bayer scale 5, high 256 and
\* none, and the medium profile for any other name.
C9_Profile ==
    \A r \in Active :
        \A i \in DOMAIN log[r] :
            /\ log[r][i].kind = "palette" =>
                  log[r][i].opt = ProfileTable(req[r].quality).colors
            /\ log[r][i].kind = "gif" =>
                  log[r][i].opt = ProfileTable(req[r].quality).dither

\* A run with an unknown preset name has made both invocations.
C9_Witness ==
    \E r \in Active :
        /\ req[r].quality \notin Choices
        /\ Kinds(r) = {"version", "palette", "gif"}

\* C10: a run that fails after its except clause caught the engine's
\* CalledProcessError propagates that CalledProcessError.
C10_OriginalErrorKept ==
    \A r \in Active :
        (pc[r] = "Failed" /\ caught[r] = "CalledProcessError")
            => exc[r] = "CalledProcessError"

====
